---------------------------- MODULE Spec2Model ----------------------------
(*************************************************************************)
(* Progressive lightmap baker: atlas allocation (Atlas.tsx,              *)
(* computeFaceUV / useMeshWithAtlas), the per-frame texel scheduler      *)
(* with its texture stack (Atlas.tsx, useAtlas) and the registration     *)
(* checks of the surface manager (IrradianceSurfaceManager.tsx).         *)
(*                                                                       *)
(* Numbers.  The code computes in IEEE doubles.  The model is exact      *)
(* fixed point: a UV coordinate u is the integer u * UVOne, an edge      *)
(* length is an integer number of hundredths.  With these units every    *)
(* product and quotient below is an exact integer, and the doubles of    *)
(* the code agree with it: 0.1 + 0.025 is exactly 0.125, left * 256 is   *)
(* exactly 32 * column + 2, and sizeU * 256 = 0.0512 * length is an      *)
(* integer only for length 0, so Math.ceil sees no rounding.             *)
(*************************************************************************)
EXTENDS Integers, Sequences, FiniteSets, TLC

\* ------------------------------------------------------------------
\* Program constants (Atlas.tsx lines 5-20)
\* ------------------------------------------------------------------
iterationsPerFrame == 10

atlasWidth == 256

atlasHeight == 256

\* one UV unit; 5000 model units per texel
UVOne == 5000 * atlasWidth

bleedOffsetU == (2 * UVOne) \div atlasWidth

bleedOffsetV == (2 * UVOne) \div atlasHeight

\* 0.1
itemSizeU == UVOne \div 10

itemSizeV == UVOne \div 10

\* 0.025
itemUVMargin == UVOne \div 40

\* 5, in hundredths
atlasItemMaxDim == 500

itemsPerRow == UVOne \div (itemSizeU + itemUVMargin)

\* ------------------------------------------------------------------
\* Small helpers
\* ------------------------------------------------------------------
Min(a, b) == IF a < b THEN a ELSE b

\* Math.ceil(n / d) for n >= 0, d > 0
CeilDiv(n, d) == (n + d - 1) \div d

\* Math.floor(n / d) for n >= 0, d > 0
FloorDiv(n, d) == n \div d

Abs(a) == IF a < 0 THEN -a ELSE a

VSub(a, b) == <<a[1] - b[1], a[2] - b[2], a[3] - b[3]>>

\* THREE.Vector3.length(); exact for the axis-aligned edges of the
\* geometries below (floor of the square root otherwise)
VLength(v) ==
    LET n == v[1] * v[1] + v[2] * v[2] + v[3] * v[3]
    IN  CHOOSE r \in 0..(Abs(v[1]) + Abs(v[2]) + Abs(v[3])) :
            r * r <= n /\ (r + 1) * (r + 1) > n

\* ------------------------------------------------------------------
\* Geometry input: an indexed BufferGeometry laid out as three.js lays
\* out a PlaneBufferGeometry with one row of quads, two triangles per
\* quad in the order a,b,d, b,c,d (a top-left, b bottom-left,
\* c bottom-right, d top-right).  widths[i] is the width of quad i,
\* h the common height, in hundredths.
\* ------------------------------------------------------------------
RECURSIVE SumTo(_, _)
SumTo(widths, k) == IF k = 0 THEN 0 ELSE widths[k] + SumTo(widths, k - 1)

StripPositions(widths, h) ==
    LET n == Len(widths)
    IN  [v \in 1..(2 * (n + 1)) |->
            IF v <= n + 1 THEN <<SumTo(widths, v - 1), h, 0>>
            ELSE <<SumTo(widths, v - n - 2), 0, 0>>]

\* vertex numbers are 0-based as in the index buffer
StripIndex(n) ==
    [k \in 1..(6 * n) |->
        LET q == (k - 1) \div 6
            a == q
            b == q + n + 1
            c == q + n + 2
            d == q + 1
        IN  CASE (k - 1) % 6 = 0 -> a
              [] (k - 1) % 6 = 1 -> b
              [] (k - 1) % 6 = 2 -> d
              [] (k - 1) % 6 = 3 -> b
              [] (k - 1) % 6 = 4 -> c
              [] OTHER -> d]

StripGeometry(widths, h) ==
    [index |-> StripIndex(Len(widths)), position |-> StripPositions(widths, h)]

\* the geometries the host can hand in, by name
Geometry(g) ==
    CASE g = "quad4x4" -> StripGeometry(<<70>>, 70)
      [] g = "strip"   -> StripGeometry(<<10>>, 30)
      [] g = "pair"    -> StripGeometry(<<30, 10>>, 10)
      [] g = "row16"   -> StripGeometry([i \in 1..16 |-> 10], 10)
      [] g = "flat"    -> StripGeometry(<<0>>, 10)
      [] g = "quarter" -> StripGeometry(<<25>>, 25)
      [] OTHER         -> StripGeometry(<<10>>, 10)

\* ------------------------------------------------------------------
\* fetchFaceIndexes / fetchFaceUV / computeFaceUV (Atlas.tsx 27-75)
\* ------------------------------------------------------------------
\* indexArray is 1-based here, the values in it are 0-based vertices
fetchFaceIndexes(indexArray, faceIndex) ==
    LET vBase == faceIndex * 6
    IN  <<indexArray[vBase + 1], indexArray[vBase + 2],
          indexArray[vBase + 5], indexArray[vBase + 6]>>

\* origin, U corner, V corner
fetchFaceUV(posArray, faceIndexes) ==
    [tmpOrigin |-> posArray[faceIndexes[2] + 1],
     tmpU      |-> posArray[faceIndexes[3] + 1],
     tmpV      |-> posArray[faceIndexes[1] + 1]]

computeFaceUV(atlasFaceIndex, posArray, faceIndexes) ==
    LET itemColumn == atlasFaceIndex % itemsPerRow
        itemRow    == FloorDiv(atlasFaceIndex, itemsPerRow)
        f          == fetchFaceUV(posArray, faceIndexes)
        dUdim      == Min(atlasItemMaxDim, VLength(VSub(f.tmpU, f.tmpOrigin)))
        dVdim      == Min(atlasItemMaxDim, VLength(VSub(f.tmpV, f.tmpOrigin)))
    IN  [left  |-> itemColumn * (itemSizeU + itemUVMargin) + bleedOffsetU,
         top   |-> itemRow * (itemSizeV + itemUVMargin) + bleedOffsetV,
         sizeU |-> (itemSizeU * dUdim) \div atlasItemMaxDim,
         sizeV |-> (itemSizeV * dVdim) \div atlasItemMaxDim]


\* ------------------------------------------------------------------
\* Bounds of the model
\* ------------------------------------------------------------------
\* faces registered in the scheduler specification
MaxFaces == 3

\* frames the host invokes
MaxTicks == 4

\* mesh registrations in the allocation specification
MaxAllocMeshes == 5

\* longest stack the rotation is tried on
MaxStackLen == 4

\* registrations with the surface manager
MaxSceneItems == 3

\* ------------------------------------------------------------------
\* State
\* ------------------------------------------------------------------
VARIABLES
    atlasInfo,              \* AtlasItem[] shared by registration and baking
    atlasFaceFillIndexRef,  \* atlasFaceFillIndexRef.current
    atlasStack,             \* the useState value of the latest render
    pendingRotations,       \* setAtlasStack updaters queued, not yet rendered
    syncFlush,              \* whether the React root renders a setState at once
    data,                   \* data[b]: the written texels of buffer b
    frame,                  \* the running useFrame callback
    droppedIndex,           \* geometries whose index the host has removed
    thrown,                 \* the error the last operation raised, or "none"
    gl,                     \* render-target binds, renders, readbacks issued
    ticks,                  \* frames invoked so far
    stamp,                  \* texel visits so far; the value a visit writes
    visitLog,               \* visits since the current pass began
    rotationLog,            \* for each rotation request of the pass, Len(visitLog)
    armed,                  \* the pass began at face 0 with every count 0
    lastVisit,              \* what the last iterate() did
    passStack,              \* stack order with every requested rotation applied
    tickBegin,              \* the last tick's kind and the state it began in
    tickVisits,             \* iterate() calls completed in the last tick
    lightSceneItems,        \* surface manager registry
    lightSceneLights,       \* surface manager registry
    withMeshCalls,          \* meshes handed to the upstream withMesh
    lastReg,                \* the last surface-manager registration
    rotations,              \* rotation specification: rotations applied
    origStack,              \* rotation specification: the stack it began with
    prevStack,              \* rotation specification: the stack before the last
    meshCount,              \* meshes whose faces are in atlasInfo
    handlerCalls,           \* handleProbeData invocations of renderLightProbe
    lastProbe,              \* what the last renderLightProbe did
    probe,                  \* the renderLightProbe call in progress, by statement
    compositor,             \* IrradianceCompositor: layers, uniforms, target
    runs,                   \* two bakes of one atlas map, side by side
    sample,                 \* the last surface point computed
    baking                  \* the scheduler alone, run without end

schedVars == <<atlasFaceFillIndexRef, atlasStack, pendingRotations, data, frame,
               gl, stamp, visitLog, rotationLog, armed, lastVisit, passStack,
               tickBegin, tickVisits>>

surfaceVars == <<lightSceneItems, lightSceneLights, withMeshCalls, lastReg>>

stackVars == <<rotations, origStack, prevStack>>

probeVars == <<handlerCalls, lastProbe, probe, compositor, runs,
              sample, baking>>

vars == <<atlasInfo, atlasFaceFillIndexRef, atlasStack, pendingRotations,
          syncFlush, data, frame, droppedIndex, thrown, gl, ticks, stamp,
          visitLog, rotationLog, armed, lastVisit, passStack, tickBegin,
          tickVisits, lightSceneItems, lightSceneLights, withMeshCalls,
          lastReg, rotations, origStack, prevStack, meshCount, handlerCalls,
          lastProbe, probe, compositor, runs, sample, baking>>

NoVisit == [face |-> -1]

NoReg == [kind |-> "none"]

NoProbe == [error |-> "not run"]

NoCall == [pc |-> "none"]

Unmounted == [mounted |-> FALSE]

NoRuns == [started |-> FALSE]

NoSample == [by |-> "none"]

NotBaking ==
    [started |-> FALSE, map |-> <<>>, info |-> <<>>, index |-> 0,
     visit |-> <<-1, -1, -1>>, rotated |-> FALSE]

\* createAtlasTexture twice (Atlas.tsx 189-192): buffer 0 holds the test
\* pattern, buffer 1 zeros; a texel absent from data[b] still holds that.
InitCommon ==
    /\ atlasInfo = <<>>
    /\ atlasFaceFillIndexRef = 0
    /\ pendingRotations = 0
    /\ data = [b \in {0, 1} |-> <<>>]
    /\ frame = [pc |-> "idle", iteration |-> 0, atlasStack |-> <<0, 1>>]
    /\ droppedIndex = {}
    /\ thrown = "none"
    /\ gl = [binds |-> 0, renders |-> 0, readbacks |-> 0]
    /\ ticks = 0
    /\ stamp = 0
    /\ visitLog = <<>>
    /\ rotationLog = <<>>
    /\ armed = TRUE
    /\ lastVisit = NoVisit
    /\ passStack = <<0, 1>>
    /\ tickBegin = [kind |-> "none"]
    /\ tickVisits = 0
    /\ lightSceneItems = <<>>
    /\ lightSceneLights = <<>>
    /\ withMeshCalls = <<>>
    /\ lastReg = NoReg
    /\ rotations = 0
    /\ meshCount = 0
    /\ handlerCalls = 0
    /\ lastProbe = NoProbe
    /\ probe = NoCall
    /\ compositor = Unmounted
    /\ runs = NoRuns
    /\ sample = NoSample
    /\ baking = NotBaking

\* the two entries useAtlas creates
InitStack ==
    /\ atlasStack = <<0, 1>>
    /\ origStack = <<0, 1>>
    /\ prevStack = <<0, 1>>

\* ------------------------------------------------------------------
\* Texel grid of an atlas item (Atlas.tsx 251-255, 282-285)
\* ------------------------------------------------------------------
faceTexelCols(item) == CeilDiv(item.sizeU * atlasWidth, UVOne)

faceTexelRows(item) == CeilDiv(item.sizeV * atlasHeight, UVOne)

FaceTexels(item) == faceTexelRows(item) * faceTexelCols(item)

\* Math.floor(atlasTexelLeft), Math.floor(atlasTexelTop); the code scales
\* top by atlasWidth too
TexelLeft(item) == FloorDiv(item.left * atlasWidth, UVOne)

TexelTop(item) == FloorDiv(item.top * atlasWidth, UVOne)

RECURSIVE TotalTexels(_, _)
TotalTexels(info, k) ==
    IF k = 0 THEN 0 ELSE FaceTexels(info[k]) + TotalTexels(info, k - 1)

PassLength == TotalTexels(atlasInfo, Len(atlasInfo))

AllCountsZero(info) == \A i \in 1..Len(info) : info[i].pixelFillCount = 0

\* ------------------------------------------------------------------
\* useMeshWithAtlas (Atlas.tsx 126-178)
\* ------------------------------------------------------------------
\* the faces of one mesh appended to info (the for loop, 147-172)
RECURSIVE PushFaces(_, _, _, _)
PushFaces(info, g, faceIndex, faceCount) ==
    IF faceIndex >= faceCount THEN info
    ELSE LET atlasFaceIndex == Len(info)
             fi == fetchFaceIndexes(Geometry(g).index, faceIndex)
             uv == computeFaceUV(atlasFaceIndex, Geometry(g).position, fi)
         IN  PushFaces(
                 Append(info, [mesh |-> g, faceIndex |-> faceIndex,
                               left |-> uv.left, top |-> uv.top,
                               sizeU |-> uv.sizeU, sizeV |-> uv.sizeV,
                               pixelFillCount |-> 0]),
                 g, faceIndex + 1, faceCount)

\* the geometry's index is missing: never set ("plain") or removed
HasIndex(g) == g /= "plain" /\ g \notin droppedIndex

\* the effect on atlasInfo and the error raised, for mesh geometry g
\* ("unset": meshBuffer still undefined)
MeshWithAtlas(info, g) ==
    IF g = "unset" THEN [info |-> info, error |-> "none"]
    ELSE IF ~HasIndex(g)
         THEN [info |-> info, error |-> "expecting indexed mesh buffer"]
    ELSE [info |-> PushFaces(info, g, 0, FloorDiv(Len(Geometry(g).index), 6)),
          error |-> "none"]


\* ------------------------------------------------------------------
\* JavaScript arithmetic on the fill count.  A face with a zero-length
\* edge has 0 columns or 0 rows, and x % 0 and 0 / 0 are NaN.
\* ------------------------------------------------------------------
NaN == 0 - UVOne

JsMod(a, b) == IF a = NaN \/ b = 0 THEN NaN ELSE a % b

JsFloorDiv(a, b) == IF a = NaN \/ b = 0 THEN NaN ELSE a \div b

JsAdd(a, b) == IF a = NaN \/ b = NaN THEN NaN ELSE a + b

\* ------------------------------------------------------------------
\* The texture stack (Atlas.tsx 189-192, 273-277, 405-411)
\* ------------------------------------------------------------------
\* a rotation the other way round: the first entry goes last
RotateForward(prev) == SubSeq(prev, 2, Len(prev)) \o <<prev[1]>>

\* the updater handed to setAtlasStack: [last, ...prev.slice(0, -1)]
Rotate(prev) == <<prev[Len(prev)]>> \o SubSeq(prev, 1, Len(prev) - 1)

RECURSIVE RotateTimes(_, _)
RotateTimes(stack, n) ==
    IF n = 0 THEN stack ELSE RotateTimes(Rotate(stack), n - 1)

\* atlasStack[0].texture and atlasStack[1].texture of a render
outputTexture(stack) == stack[1]

lightSceneTexture(stack) == stack[2]

\* Schedule with the rotation requested whenever a face is done, not only
\* when the face index wraps to 0
ScheduleRotatesPerFace(info, currentAtlasFaceIndex) ==
    LET item       == info[currentAtlasFaceIndex + 1]
        cols       == faceTexelCols(item)
        rows       == faceTexelRows(item)
        fillCount  == item.pixelFillCount
        newCount   == JsMod(JsAdd(fillCount, 1), rows * cols)
        faceDone   == newCount = 0
        newIndex   == IF faceDone
                      THEN (currentAtlasFaceIndex + 1) % Len(info)
                      ELSE currentAtlasFaceIndex
    IN  [faceTexelX |-> JsMod(fillCount, cols),
         faceTexelY |-> JsFloorDiv(fillCount, cols),
         info       |-> [info EXCEPT ![currentAtlasFaceIndex + 1].pixelFillCount
                                         = newCount],
         index      |-> newIndex,
         rotate     |-> faceDone]

\* ------------------------------------------------------------------
\* iterate(), the scheduler part (Atlas.tsx 238-279): the texel to fill,
\* the advanced counters and whether a rotation is requested
\* ------------------------------------------------------------------
Schedule(info, currentAtlasFaceIndex) ==
    LET item       == info[currentAtlasFaceIndex + 1]
        cols       == faceTexelCols(item)
        rows       == faceTexelRows(item)
        fillCount  == item.pixelFillCount
        newCount   == JsMod(JsAdd(fillCount, 1), rows * cols)
        faceDone   == newCount = 0
        newIndex   == IF faceDone
                      THEN (currentAtlasFaceIndex + 1) % Len(info)
                      ELSE currentAtlasFaceIndex
    IN  [faceTexelX |-> JsMod(fillCount, cols),
         faceTexelY |-> JsFloorDiv(fillCount, cols),
         info       |-> [info EXCEPT ![currentAtlasFaceIndex + 1].pixelFillCount
                                         = newCount],
         index      |-> newIndex,
         rotate     |-> faceDone /\ newIndex = 0]

\* atlasTexelBase (Atlas.tsx 282-285, 362)
atlasTexelBase(item, faceTexelX, faceTexelY) ==
    LET atlasTexelX == JsAdd(TexelLeft(item), faceTexelX)
        atlasTexelY == JsAdd(TexelTop(item), faceTexelY)
    IN  IF atlasTexelX = NaN \/ atlasTexelY = NaN THEN NaN
        ELSE atlasTexelY * atlasWidth + atlasTexelX

\* WriteTargets without the diagonal corner
WriteTargetsNoCorner(base, faceTexelX, faceTexelY) ==
    <<base>>
    \o (IF faceTexelX = 0 THEN <<base - 1>> ELSE <<>>)
    \o (IF faceTexelY = 0 THEN <<base - atlasWidth>> ELSE <<>>)

\* the texels one visit writes, in the order of the data.set calls
\* (Atlas.tsx 362-379)
WriteTargets(base, faceTexelX, faceTexelY) ==
    <<base>>
    \o (IF faceTexelX = 0 THEN <<base - 1>> ELSE <<>>)
    \o (IF faceTexelY = 0 THEN <<base - atlasWidth>> ELSE <<>>)
    \o (IF faceTexelX = 0 /\ faceTexelY = 0
        THEN <<base - atlasWidth - 1>> ELSE <<>>)

\* Float32Array.set(values, offset): a NaN offset is 0; an offset outside
\* the array raises RangeError
SetOffset(t) == IF t = NaN THEN 0 ELSE t

InBuffer(t) == SetOffset(t) >= 0 /\ SetOffset(t) < atlasWidth * atlasHeight

\* the data.set calls that run: all up to the first that raises
RECURSIVE Accepted(_)
Accepted(targets) ==
    IF targets = <<>> \/ ~InBuffer(Head(targets)) THEN <<>>
    ELSE <<SetOffset(Head(targets))>> \o Accepted(Tail(targets))

RECURSIVE SetAll(_, _, _)
SetAll(buffer, offsets, value) ==
    IF offsets = <<>> THEN buffer
    ELSE SetAll((Head(offsets) :> value) @@ buffer, Tail(offsets), value)

SeqToSet(q) == {q[i] : i \in 1..Len(q)}

\* the buffer the running callback writes: atlasStack of its closure
WriteBuffer(closureStack) == closureStack[1]

\* the loop one iteration short
LoopStopsEarly(iteration) == iteration < iterationsPerFrame - 1

\* the for loop of the callback (Atlas.tsx 400-402)
LoopContinues(iteration) == iteration < iterationsPerFrame


\* the index check placed after the probe render
ProbeCallsBeforeCheck(indexed) == 1

\* the probe renders of one iterate(): the index check (293-295) comes
\* before setRenderTarget / render / setRenderTarget /
\* readRenderTargetPixels (334-345)
ProbeCalls(indexed) == IF indexed THEN 1 ELSE 0

\* ------------------------------------------------------------------
\* The useFrame callback (Atlas.tsx 230-403), one step per iterate()
\* ------------------------------------------------------------------
\* "if (atlasInfo.length === 0) return"
AtlasInitialized(info) == Len(info) /= 0

TickSnapshot(kind) ==
    [kind |-> kind, stack |-> atlasStack, gl |-> gl, stamp |-> stamp,
     data |-> data, index |-> atlasFaceFillIndexRef, frame |-> frame]

UseFrameEmpty ==
    /\ frame.pc = "idle"
    /\ pendingRotations = 0
    /\ ticks < MaxTicks
    /\ ~AtlasInitialized(atlasInfo)
    /\ ticks' = ticks + 1
    /\ tickVisits' = 0
    /\ tickBegin' = TickSnapshot("empty")
    /\ thrown' = "none"
    /\ UNCHANGED <<atlasInfo, atlasFaceFillIndexRef, atlasStack,
                   pendingRotations, syncFlush, data, frame, droppedIndex, gl,
                   stamp, visitLog, rotationLog, armed, lastVisit, passStack,
                   surfaceVars, stackVars, probeVars, meshCount>>

\* the callback of the latest render starts; its closure holds that
\* render's atlasStack
UseFrameBegin ==
    /\ frame.pc = "idle"
    /\ pendingRotations = 0
    /\ ticks < MaxTicks
    /\ AtlasInitialized(atlasInfo)
    /\ ticks' = ticks + 1
    /\ frame' = [pc |-> "loop", iteration |-> 0, atlasStack |-> atlasStack]
    /\ tickBegin' = TickSnapshot("baked")
    /\ tickVisits' = 0
    /\ thrown' = "none"
    /\ UNCHANGED <<atlasInfo, atlasFaceFillIndexRef, atlasStack,
                   pendingRotations, syncFlush, data, droppedIndex, gl, stamp,
                   visitLog, rotationLog, armed, lastVisit, passStack,
                   surfaceVars, stackVars, probeVars, meshCount>>

Iterate ==
    /\ frame.pc = "loop"
    /\ LoopContinues(frame.iteration)
    /\ LET cur      == atlasFaceFillIndexRef
           item     == atlasInfo[cur + 1]
           s        == Schedule(atlasInfo, cur)
           \* setAtlasStack: rendered at once by a synchronous root,
           \* queued otherwise
           live     == IF s.rotate /\ syncFlush THEN Rotate(atlasStack)
                       ELSE atlasStack
           indexed  == HasIndex(item.mesh)
           base     == atlasTexelBase(item, s.faceTexelX, s.faceTexelY)
           targets  == WriteTargets(base, s.faceTexelX, s.faceTexelY)
           done     == IF indexed THEN Accepted(targets) ELSE <<>>
           err      == IF ~indexed THEN "no indexes"
                       ELSE IF Len(done) < Len(targets) THEN "RangeError"
                       ELSE "none"
           buf      == WriteBuffer(frame.atlasStack)
           calls    == ProbeCalls(indexed)
           newGl    == [binds |-> gl.binds + 2 * calls,
                        renders |-> gl.renders + calls,
                        readbacks |-> gl.readbacks + calls]
           newData  == [data EXCEPT ![buf] = SetAll(@, done, stamp + 1)]
           fresh    == armed /\ Len(visitLog) >= PassLength
           log1     == Append(IF fresh THEN <<>> ELSE visitLog,
                              <<cur, s.faceTexelX, s.faceTexelY>>)
           rot0     == IF fresh THEN <<>> ELSE rotationLog
           rot1     == IF s.rotate THEN Append(rot0, Len(log1)) ELSE rot0
           rearm    == ~armed /\ s.index = 0 /\ AllCountsZero(s.info)
       IN  /\ atlasInfo' = s.info
           /\ atlasFaceFillIndexRef' = s.index
           /\ atlasStack' = live
           /\ pendingRotations' = IF s.rotate /\ ~syncFlush
                                  THEN pendingRotations + 1
                                  ELSE pendingRotations
           /\ passStack' = IF s.rotate THEN Rotate(passStack) ELSE passStack
           /\ gl' = newGl
           /\ data' = newData
           /\ stamp' = stamp + 1
           /\ thrown' = err
           /\ frame' = IF err = "none"
                       THEN [frame EXCEPT !.iteration = @ + 1]
                       ELSE [frame EXCEPT !.pc = "idle"]
           /\ tickVisits' = IF err = "none" THEN tickVisits + 1 ELSE tickVisits
           /\ visitLog' = IF rearm THEN <<>> ELSE log1
           /\ rotationLog' = IF rearm THEN <<>> ELSE rot1
           /\ armed' = (armed \/ rearm)
           /\ lastVisit' =
                [face       |-> cur,
                 x          |-> s.faceTexelX,
                 y          |-> s.faceTexelY,
                 base       |-> base,
                 value      |-> stamp + 1,
                 buffer     |-> buf,
                 written    |-> SeqToSet(done),
                 error      |-> err,
                 rotate     |-> s.rotate,
                 passStack  |-> passStack,
                 liveStack  |-> live,
                 before     |-> [count |-> item.pixelFillCount, index |-> cur,
                                 stack |-> passStack, gl |-> gl, data |-> data],
                 after      |-> [count |-> s.info[cur + 1].pixelFillCount,
                                 index |-> s.index,
                                 stack |-> IF s.rotate THEN Rotate(passStack)
                                           ELSE passStack,
                                 gl |-> newGl, data |-> newData]]
    /\ UNCHANGED <<syncFlush, droppedIndex, ticks, tickBegin,
                   surfaceVars, stackVars, probeVars, meshCount>>

UseFrameEnd ==
    /\ frame.pc = "loop"
    /\ ~LoopContinues(frame.iteration)
    /\ frame' = [frame EXCEPT !.pc = "idle"]
    /\ UNCHANGED <<atlasInfo, atlasFaceFillIndexRef, atlasStack,
                   pendingRotations, syncFlush, data, droppedIndex, thrown, gl,
                   ticks, stamp, visitLog, rotationLog, armed, lastVisit,
                   passStack, tickBegin, tickVisits, surfaceVars,
                   stackVars, probeVars, meshCount>>

\* React renders the component again with the queued updaters applied
\* (a root that does not render setState at once renders it after the
\* callback has returned and before the next frame)
Render ==
    /\ frame.pc = "idle"
    /\ pendingRotations > 0
    /\ atlasStack' = RotateTimes(atlasStack, pendingRotations)
    /\ pendingRotations' = 0
    /\ UNCHANGED <<atlasInfo, atlasFaceFillIndexRef, syncFlush, data, frame,
                   droppedIndex, thrown, gl, ticks, stamp, visitLog,
                   rotationLog, armed, lastVisit, passStack, tickBegin,
                   tickVisits, surfaceVars, stackVars, probeVars, meshCount>>

\* useMeshWithAtlas's update callback for a mesh with geometry g
UseMeshWithAtlas(g, maxFaces) ==
    /\ frame.pc = "idle"
    /\ LET r == MeshWithAtlas(atlasInfo, g)
       IN  /\ Len(r.info) <= maxFaces
           /\ atlasInfo' = r.info
           /\ thrown' = r.error
           /\ visitLog' = IF r.info = atlasInfo THEN visitLog ELSE <<>>
           /\ rotationLog' = IF r.info = atlasInfo THEN rotationLog ELSE <<>>
           /\ armed' = IF r.info = atlasInfo THEN armed
                       ELSE atlasFaceFillIndexRef = 0 /\ AllCountsZero(r.info)
           /\ meshCount' = IF r.info = atlasInfo THEN meshCount
                           ELSE meshCount + 1
    /\ UNCHANGED <<atlasFaceFillIndexRef, atlasStack, pendingRotations,
                   syncFlush, data, frame, droppedIndex, gl, ticks, stamp,
                   lastVisit, passStack, tickBegin, tickVisits,
                   surfaceVars, stackVars, probeVars>>

\* the meshes of the baked scene: quads with at least one texel a side
BakedMeshes == {"quad4x4", "strip", "pair"}

Init ==
    /\ InitCommon
    /\ InitStack
    /\ syncFlush \in BOOLEAN

Next ==
    \/ UseFrameEmpty
    \/ UseFrameBegin
    \/ Iterate
    \/ UseFrameEnd
    \/ Render
    \/ \E g \in BakedMeshes \cup {"plain", "unset"} : UseMeshWithAtlas(g, MaxFaces)

Spec == Init /\ [][Next]_vars


\* ------------------------------------------------------------------
\* Properties of the scheduler
\* ------------------------------------------------------------------
\* the texels of face number f (0-based) of the atlas
FaceGrid(f) ==
    {<<f, x, y>> : x \in 0..(faceTexelCols(atlasInfo[f + 1]) - 1),
                   y \in 0..(faceTexelRows(atlasInfo[f + 1]) - 1)}

AllTexels == UNION {FaceGrid(f) : f \in 0..(Len(atlasInfo) - 1)}

Occurrences(log, v) == Cardinality({i \in 1..Len(log) : log[i] = v})

PassComplete == armed /\ atlasInfo /= <<>> /\ Len(visitLog) = PassLength

C1_Scenario4x4 ==
    (Len(atlasInfo) = 1 /\ atlasInfo[1].mesh = "quad4x4" /\ armed
     /\ Len(visitLog) = 16)
        => (atlasFaceFillIndexRef = 0 /\ rotationLog = <<16>>)

\* C3: the order of the stack in force during a tick is the order the
\* tick began with: every texel write of the tick goes to the buffer that
\* was at position 0 then, and the rendered stack (outputTexture,
\* lightSceneTexture) does not change before the tick has made all its
\* visits.
C3_RotationOnlyBetweenTicks ==
    (frame.pc = "loop" /\ tickBegin.kind = "baked") =>
        /\ atlasStack = tickBegin.stack
        /\ outputTexture(atlasStack) = outputTexture(tickBegin.stack)
        /\ lightSceneTexture(atlasStack) = lightSceneTexture(tickBegin.stack)
        /\ (stamp > tickBegin.stamp =>
               /\ lastVisit.buffer = outputTexture(tickBegin.stack)
               /\ lastVisit.liveStack = tickBegin.stack)

\* the part of C3 that every build keeps: the writes of one tick all go
\* to the buffer at position 0 when the tick began
C3_WritesUseTickBeginOrder ==
    (tickBegin.kind = "baked" /\ stamp > tickBegin.stamp) =>
        lastVisit.buffer = outputTexture(tickBegin.stack)

\* C4: every texel computed during a pass is written to the buffer at
\* position 0 of the stack of that pass, never to a light source of the
\* pass (position >= 1, the output of the pass before).
C4_PassWritesItsOutputBuffer ==
    (lastVisit /= NoVisit /\ lastVisit.written /= {}) =>
        /\ lastVisit.buffer = lastVisit.passStack[1]
        /\ \A k \in 2..Len(lastVisit.passStack) :
               lastVisit.buffer /= lastVisit.passStack[k]

\* C5: a tick on a non-empty atlas makes exactly iterationsPerFrame
\* visits whatever the faces; a tick on an empty atlas makes no visit, no
\* render, no write and leaves the scheduler as it was.
C5_FixedVisitsPerTick ==
    /\ (tickBegin.kind = "baked" /\ frame.pc = "loop") =>
           /\ tickVisits = frame.iteration
           /\ tickVisits <= iterationsPerFrame
           /\ stamp = tickBegin.stamp + tickVisits
    /\ (tickBegin.kind = "baked" /\ frame.pc = "idle") =>
           /\ tickVisits = iterationsPerFrame
           /\ stamp = tickBegin.stamp + iterationsPerFrame
           /\ gl.renders = tickBegin.gl.renders + iterationsPerFrame
    /\ (tickBegin.kind = "empty" /\ atlasInfo = <<>>) =>
           /\ tickVisits = 0
           /\ stamp = tickBegin.stamp
           /\ gl = tickBegin.gl
           /\ data = tickBegin.data
           /\ atlasFaceFillIndexRef = tickBegin.index
           /\ atlasStack = tickBegin.stack
           /\ frame = tickBegin.frame
           /\ pendingRotations = 0

\* a finished tick that crossed a face boundary and a pass boundary
C5_Witness ==
    /\ tickBegin.kind = "baked"
    /\ frame.pc = "idle"
    /\ tickVisits = iterationsPerFrame
    /\ Len(atlasInfo) >= 2
    /\ passStack /= tickBegin.stack
    /\ atlasFaceFillIndexRef /= tickBegin.index

\* a tick on the empty atlas has run
C5_WitnessEmpty == tickBegin.kind = "empty" /\ atlasInfo = <<>> /\ ticks > 0

\* the buffer index of texel (x, y) of an item
TexelIndex(item, x, y) == (TexelTop(item) + y) * atlasWidth + TexelLeft(item) + x

\* the bleed-border texels fed by interior texel (x, y) of an item
BorderOf(item, x, y) ==
    (IF x = 0 THEN {TexelIndex(item, x, y) - 1} ELSE {})
    \cup (IF y = 0 THEN {TexelIndex(item, x, y) - atlasWidth} ELSE {})
    \cup (IF x = 0 /\ y = 0
          THEN {TexelIndex(item, x, y) - atlasWidth - 1} ELSE {})

Written(b) == DOMAIN data[b]

schedAll == <<atlasInfo, atlasFaceFillIndexRef, pendingRotations, syncFlush,
              data, frame, droppedIndex, thrown, gl, ticks, stamp, visitLog,
              rotationLog, armed, lastVisit, passStack, tickBegin, tickVisits,
              meshCount>>

Entries == 0..(MaxStackLen - 1)

RECURSIVE DistinctSeqs(_, _)
DistinctSeqs(S, n) ==
    IF n = 0 THEN {<<>>}
    ELSE {Append(q, e) : q \in DistinctSeqs(S, n - 1), e \in S}

NoRepeat(q) == \A i, j \in 1..Len(q) : i /= j => q[i] /= q[j]

Stacks ==
    {q \in UNION {DistinctSeqs(Entries, n) : n \in 1..MaxStackLen} : NoRepeat(q)}

InitRotation ==
    /\ InitCommon
    /\ syncFlush = FALSE
    /\ atlasStack \in Stacks
    /\ origStack = atlasStack
    /\ prevStack = atlasStack

\* setAtlasStack's updater applied to the stack
RotateStack ==
    /\ rotations < Len(atlasStack)
    /\ prevStack' = atlasStack
    /\ atlasStack' = Rotate(atlasStack)
    /\ rotations' = rotations + 1
    /\ UNCHANGED <<schedAll, origStack, surfaceVars, probeVars>>

NextRotation == RotateStack

SpecRotation == InitRotation /\ [][NextRotation]_vars

\* C2: a rotation puts the last entry at position 0 and every other entry
\* one position down, so the old output is the new light source; it only
\* permutes the entries; N rotations of N entries restore the order.
C2_RotationIsCyclicShift ==
    /\ Len(atlasStack) = Len(origStack)
    /\ NoRepeat(atlasStack)
    /\ SeqToSet(atlasStack) = SeqToSet(origStack)
    /\ rotations > 0 =>
           /\ atlasStack[1] = prevStack[Len(prevStack)]
           /\ \A i \in 1..(Len(prevStack) - 1) : atlasStack[i + 1] = prevStack[i]
           /\ (Len(atlasStack) >= 2 =>
                  lightSceneTexture(atlasStack) = outputTexture(prevStack))
    /\ rotations = Len(origStack) => atlasStack = origStack

\* a stack of three or more entries, rotated as often as it is long
C2_Witness ==
    /\ Len(atlasStack) >= 3
    /\ rotations = Len(atlasStack)
    /\ atlasStack = origStack
    /\ prevStack /= atlasStack

\* ------------------------------------------------------------------
\* Allocation on its own: meshes registered one after another
\* ------------------------------------------------------------------
AllocMeshes == {"row16", "quad4x4", "pair", "flat", "plain", "unset"}

\* more faces than any MaxAllocMeshes meshes have
NoFaceLimit == 16 * MaxAllocMeshes + 16

RegisterMesh ==
    /\ meshCount < MaxAllocMeshes
    /\ \E g \in AllocMeshes : UseMeshWithAtlas(g, NoFaceLimit)

NextAlloc == RegisterMesh

SpecAlloc == Init /\ [][NextAlloc]_vars

\* rectangles in UV units
Right(item) == item.left + item.sizeU

Bottom(item) == item.top + item.sizeV

InsideAtlas(item) ==
    /\ item.left >= 0
    /\ item.top >= 0
    /\ Right(item) <= UVOne
    /\ Bottom(item) <= UVOne

PositiveArea(item) == item.sizeU > 0 /\ item.sizeV > 0

Disjoint(a, b) ==
    \/ Right(a) <= b.left
    \/ Right(b) <= a.left
    \/ Bottom(a) <= b.top
    \/ Bottom(b) <= a.top

\* the grid cells that fit in the atlas
AtlasCapacity == itemsPerRow * (UVOne \div (itemSizeV + itemUVMargin))

\* C7: the rectangles of the registered faces are pairwise disjoint, of
\* positive area and inside the atlas [0,1] x [0,1].
C7_RectsDisjointPositiveInside ==
    /\ \A i \in 1..Len(atlasInfo) :
           PositiveArea(atlasInfo[i]) /\ InsideAtlas(atlasInfo[i])
    /\ \A i, j \in 1..Len(atlasInfo) :
           i < j => Disjoint(atlasInfo[i], atlasInfo[j])

\* the parts of C7 the code keeps for every input
RectsPairwiseDisjoint ==
    \A i, j \in 1..Len(atlasInfo) :
        (i < j /\ PositiveArea(atlasInfo[i]) /\ PositiveArea(atlasInfo[j]))
            => Disjoint(atlasInfo[i], atlasInfo[j])

RectsInsideUpToCapacity ==
    \A i \in 1..Len(atlasInfo) : i <= AtlasCapacity => InsideAtlas(atlasInfo[i])

\* C8: no item outside the atlas is ever in the atlas map, and a
\* registration that would exceed the capacity fails with AtlasOverflow.
C8_OverflowRejected ==
    /\ Len(atlasInfo) <= AtlasCapacity
    /\ \A i \in 1..Len(atlasInfo) : InsideAtlas(atlasInfo[i])
    /\ thrown \in {"none", "expecting indexed mesh buffer", "AtlasOverflow"}

\* ------------------------------------------------------------------
\* IrradianceSurfaceManager.tsx: useAtlasMeshRef, useLightRef
\* ------------------------------------------------------------------
\* a mesh as the checks see it
Meshes ==
    [material : {"array", "basic", "lambert"},
     geometry : {"geometry", "buffer", "indexed"},
     withMesh : BOOLEAN]

Lights == {"directional", "point", "ambient"}

\* the update callback of useAtlasMeshRef (58-95): the registry, the
\* withMesh calls and the error after it has run for mesh m
AtlasMeshRef(items, calls, m) ==
    IF m.material = "array"
    THEN [items |-> items, calls |-> calls,
          error |-> "material array not supported"]
    ELSE IF m.material /= "lambert"
    THEN [items |-> items, calls |-> calls,
          error |-> "only Lambert materials are supported"]
    ELSE LET pushed == Append(items, m)
         IN  IF m.geometry = "geometry"
             THEN [items |-> pushed, calls |-> calls,
                   error |-> "expected buffer geometry"]
             ELSE IF m.geometry /= "indexed"
             THEN [items |-> pushed, calls |-> calls,
                   error |-> "expecting indexed mesh buffer"]
             ELSE [items |-> pushed,
                   calls |-> IF m.withMesh THEN Append(calls, m) ELSE calls,
                   error |-> "none"]

\* the update callback of useLightRef (103-113)
LightRef(lights, l) ==
    IF l /= "directional"
    THEN [lights |-> lights, error |-> "only directional lights are supported"]
    ELSE [lights |-> Append(lights, l), error |-> "none"]

UseAtlasMeshRef ==
    /\ Len(lightSceneItems) < MaxSceneItems
    /\ \E m \in Meshes :
           LET r == AtlasMeshRef(lightSceneItems, withMeshCalls, m)
           IN  /\ lightSceneItems' = r.items
               /\ withMeshCalls' = r.calls
               /\ thrown' = r.error
               /\ lastReg' = [kind |-> "mesh", mesh |-> m, error |-> r.error,
                              itemsBefore |-> lightSceneItems,
                              itemsAfter |-> r.items,
                              callsBefore |-> withMeshCalls,
                              callsAfter |-> r.calls]
    /\ UNCHANGED <<atlasInfo, atlasFaceFillIndexRef, atlasStack,
                   pendingRotations, syncFlush, data, frame, droppedIndex, gl,
                   ticks, stamp, visitLog, rotationLog, armed, lastVisit,
                   passStack, tickBegin, tickVisits, lightSceneLights,
                   stackVars, probeVars, meshCount>>

UseLightRef ==
    /\ Len(lightSceneLights) < MaxSceneItems
    /\ \E l \in Lights :
           LET r == LightRef(lightSceneLights, l)
           IN  /\ lightSceneLights' = r.lights
               /\ thrown' = r.error
               /\ lastReg' = [kind |-> "light", light |-> l, error |-> r.error,
                              lightsBefore |-> lightSceneLights,
                              lightsAfter |-> r.lights]
    /\ UNCHANGED <<atlasInfo, atlasFaceFillIndexRef, atlasStack,
                   pendingRotations, syncFlush, data, frame, droppedIndex, gl,
                   ticks, stamp, visitLog, rotationLog, armed, lastVisit,
                   passStack, tickBegin, tickVisits, lightSceneItems,
                   withMeshCalls, stackVars, probeVars, meshCount>>

NextSurface == UseAtlasMeshRef \/ UseLightRef

SpecSurface == Init /\ [][NextSurface]_vars

Supported(m) == m.material = "lambert" /\ m.geometry = "indexed"

\* C9: a mesh with a material array, a material that is not Lambert, a
\* geometry that is no buffer geometry or has no index raises an error at
\* registration, leaves the registry as it was and never reaches withMesh;
\* a light that is not directional is rejected and not registered.
C9_FailedRegistrationLeavesRegistry ==
    /\ lastReg.kind = "mesh" =>
           /\ (lastReg.error /= "none") = ~Supported(lastReg.mesh)
           /\ (lastReg.error /= "none" =>
                  /\ lastReg.itemsAfter = lastReg.itemsBefore
                  /\ lastReg.callsAfter = lastReg.callsBefore)
    /\ lastReg.kind = "light" =>
           /\ (lastReg.error /= "none") = (lastReg.light /= "directional")
           /\ (lastReg.error /= "none" =>
                  lastReg.lightsAfter = lastReg.lightsBefore)
    /\ \A i \in 1..Len(lightSceneItems) : Supported(lightSceneItems[i])
    /\ \A i \in 1..Len(withMeshCalls) : Supported(withMeshCalls[i])
    /\ \A i \in 1..Len(lightSceneLights) : lightSceneLights[i] = "directional"

\* the parts of C9 the code keeps
RegistrationErrorsRaised ==
    /\ lastReg.kind = "mesh" =>
           /\ (lastReg.error /= "none") = ~Supported(lastReg.mesh)
           /\ (lastReg.error /= "none" =>
                  lastReg.callsAfter = lastReg.callsBefore)
           /\ (lastReg.mesh.material /= "lambert" =>
                  lastReg.itemsAfter = lastReg.itemsBefore)
    /\ lastReg.kind = "light" =>
           /\ (lastReg.error /= "none") = (lastReg.light /= "directional")
           /\ (lastReg.error /= "none" =>
                  lastReg.lightsAfter = lastReg.lightsBefore)
    /\ \A i \in 1..Len(withMeshCalls) : Supported(withMeshCalls[i])
    /\ \A i \in 1..Len(lightSceneLights) : lightSceneLights[i] = "directional"


\* ------------------------------------------------------------------
\* A geometry that loses its index after registration
\* ------------------------------------------------------------------
MaxProbes == 1

MaxDropped == 1

ProbeSubRenders == 5

\* renderLightProbe (IrradianceLightProbe.tsx 168-311) on an item whose
\* original buffer is indexed or not: the index check, then
\* setRenderTarget, five renders, one readback, setRenderTarget(null)
\* and five handleProbeData calls
RenderLightProbeCalls(indexed) ==
    IF ~indexed
    THEN [error |-> "expected indexed mesh",
          binds |-> 0, renders |-> 0, readbacks |-> 0, handler |-> 0]
    ELSE [error |-> "none",
          binds |-> 2, renders |-> ProbeSubRenders, readbacks |-> 1,
          handler |-> ProbeSubRenders]

\* the host replaces the geometry's index by null
HostDropsIndex ==
    /\ frame.pc = "idle"
    /\ Cardinality(droppedIndex) < MaxDropped
    /\ \E i \in 1..Len(atlasInfo) :
           /\ atlasInfo[i].mesh \notin droppedIndex
           /\ droppedIndex' = droppedIndex \cup {atlasInfo[i].mesh}
    /\ UNCHANGED <<atlasInfo, atlasFaceFillIndexRef, atlasStack,
                   pendingRotations, syncFlush, data, frame, thrown, gl,
                   ticks, stamp, visitLog, rotationLog, armed, lastVisit,
                   passStack, tickBegin, tickVisits, surfaceVars, stackVars,
                   probeVars, meshCount>>

RenderLightProbe ==
    /\ frame.pc = "idle"
    /\ handlerCalls < ProbeSubRenders * MaxProbes
    /\ lastProbe.error /= "expected indexed mesh"
    /\ \E i \in 1..Len(atlasInfo) :
           LET r == RenderLightProbeCalls(HasIndex(atlasInfo[i].mesh))
               newGl == [binds |-> gl.binds + r.binds,
                         renders |-> gl.renders + r.renders,
                         readbacks |-> gl.readbacks + r.readbacks]
           IN  /\ gl' = newGl
               /\ handlerCalls' = handlerCalls + r.handler
               /\ thrown' = r.error
               /\ lastProbe' = [error |-> r.error,
                                glBefore |-> gl, glAfter |-> newGl,
                                handlerBefore |-> handlerCalls,
                                handlerAfter |-> handlerCalls + r.handler]
    /\ UNCHANGED <<atlasInfo, atlasFaceFillIndexRef, atlasStack,
                   pendingRotations, syncFlush, data, frame, droppedIndex,
                   ticks, stamp, visitLog, rotationLog, armed, lastVisit,
                   passStack, tickBegin, tickVisits, surfaceVars, stackVars,
                   meshCount, probe, compositor, runs, sample, baking>>

\* meshes of one and of two faces, the second face of one texel
IndexedMeshes == {"strip", "pair"}

NextGeometryError ==
    \/ UseFrameBegin
    \/ Iterate
    \/ UseFrameEnd
    \/ Render
    \/ \E g \in IndexedMeshes : UseMeshWithAtlas(g, MaxFaces)
    \/ HostDropsIndex
    \/ RenderLightProbe

SpecGeometryError == Init /\ [][NextGeometryError]_vars

SampleFailed == lastVisit /= NoVisit /\ lastVisit.error = "no indexes"

ProbeFailed == lastProbe.error = "expected indexed mesh"

NoGlNoWrite ==
    /\ SampleFailed =>
           /\ lastVisit.after.gl = lastVisit.before.gl
           /\ lastVisit.after.data = lastVisit.before.data
           /\ lastVisit.written = {}
    /\ ProbeFailed =>
           /\ lastProbe.glAfter = lastProbe.glBefore
           /\ lastProbe.handlerAfter = lastProbe.handlerBefore

ScheduleOf(v) == <<v.count, v.index, v.stack>>

\* C10 as stated: a sampling step that finds no index fails before any
\* render target is bound, any render or readback is issued, the handler
\* is invoked or any texel is written, and pixelFillCount, the current
\* face index and the stack order are what they were before the step.
C10_FailedStepChangesNothing ==
    /\ NoGlNoWrite
    /\ SampleFailed =>
           ScheduleOf(lastVisit.after) = ScheduleOf(lastVisit.before)

\* C10, amended: a sampling step that finds no index fails before any
\* render target is bound, any render or readback is issued, the handler
\* is invoked or any texel is written; the scheduler has by then advanced
\* as for a sampled texel (pixelFillCount, and at the end of a face the
\* face index, and at the end of a pass the rotation), so the texel counts
\* as visited.
C10_FailsBeforeGlAfterAdvance ==
    /\ NoGlNoWrite
    /\ SampleFailed =>
           /\ ScheduleOf(lastVisit.after) /= ScheduleOf(lastVisit.before)
           /\ lastVisit.rotate =>
                  lastVisit.after.stack = Rotate(lastVisit.before.stack)
           /\ lastVisit.after.index /= lastVisit.before.index
                  => lastVisit.after.count = 0
           /\ lastVisit.after.index = lastVisit.before.index
                  => \/ lastVisit.after.count = lastVisit.before.count + 1
                     \/ lastVisit.rotate /\ lastVisit.after.count = 0

\* the last texel of a pass is reached with the index gone, and a probe
\* of such an item has failed too
C10_Witness ==
    /\ SampleFailed
    /\ lastVisit.rotate
    /\ ProbeFailed
    /\ gl.renders > 0


\* ------------------------------------------------------------------
\* renderLightProbe statement by statement
\* (IrradianceLightProbe.tsx 168-311)
\* ------------------------------------------------------------------
MaxProbeHalf == 4

\* probeTargetSize: even sizes
ProbeSizes == {2 * h : h \in 1..MaxProbeHalf}

halfSize(probeTargetSize) == probeTargetSize \div 2

\* Vector4.set(x, y, z, w) of a viewport, scissor or probe box
Box(x, y, w, h) == [x |-> x, y |-> y, w |-> w, h |-> h]

NoBox == Box(0, 0, 0, 0)

\* the cameras in the order of the calls: setUpProbeUp, then
\* setUpProbeSide with (tmpU, 1), (tmpU, -1), (tmpV, 1), (tmpV, -1)
Views == <<"up", "+u", "-u", "+v", "-v">>

\* probeTarget.viewport.set of view k (217-222, 233, 238-243, 253-258,
\* 268-273)
ViewportOf(N, k) ==
    IF k = 1 THEN Box(0, N, N, N) ELSE Box(N * (k - 2), 0, N, N)

\* the scissor left as wide as the viewport
ScissorWholeViewport(N, k) ==
    IF k = 1 THEN Box(0, N, N, N) ELSE Box(N * (k - 2), 0, N, N)

\* probeTarget.scissor.set of view k (223-228, 234, 244-249, 259-264,
\* 274-279)
ScissorOf(N, k) ==
    IF k = 1 THEN Box(0, N, N, N)
    ELSE Box(N * (k - 2), halfSize(N), N, halfSize(N))

\* tmpProbeBox.set of view k (297, 300, 303, 306, 309)
ProbeBoxOf(N, k) ==
    IF k = 1 THEN Box(0, N, N, N)
    ELSE Box(N * (k - 2), halfSize(N), N, halfSize(N))

\* originY handed to handleProbeData (298-310)
OriginYOf(N, k) == IF k = 1 THEN 0 ELSE halfSize(N)

Stmt(name, view, box) == [s |-> name, view |-> view, box |-> box]

ViewStmts(N, k) ==
    <<Stmt("setUpProbe", Views[k], NoBox),
      Stmt("viewport.set", Views[k], ViewportOf(N, k)),
      Stmt("scissor.set", Views[k], ScissorOf(N, k)),
      Stmt("gl.render", Views[k], NoBox)>>

HandlerStmts(N, k) ==
    <<Stmt("tmpProbeBox.set", Views[k], ProbeBoxOf(N, k)),
      Stmt("handleProbeData", Views[k], Box(0, OriginYOf(N, k), 0, 0))>>

Prologue(N) ==
    <<Stmt("gl.setRenderTarget", "", Box(0, 0, 4 * N, 2 * N)),
      Stmt("gl.autoClear = false", "", NoBox),
      Stmt("scissor.set", "", Box(0, 0, 4 * N, 2 * N)),
      Stmt("gl.clearDepth", "", NoBox),
      Stmt("gl.clearColor", "", NoBox)>>

Readback(N) ==
    <<Stmt("gl.readRenderTargetPixels", "", Box(0, 0, 4 * N, 2 * N)),
      Stmt("gl.autoClear = true", "", NoBox),
      Stmt("gl.setRenderTarget(null)", "", NoBox)>>

\* the probe data consumed before it is read back
renderLightProbeConsumesFirst(N) ==
    LET V(k) == ViewStmts(N, k)
        H(k) == HandlerStmts(N, k)
    IN  Prologue(N) \o V(1) \o V(2) \o V(3) \o V(4) \o V(5)
            \o H(1) \o Readback(N) \o H(2) \o H(3) \o H(4) \o H(5)

\* the statements of renderLightProbe after the index check (208-310)
renderLightProbeBody(N) ==
    LET V(k) == ViewStmts(N, k)
        H(k) == HandlerStmts(N, k)
    IN  Prologue(N) \o V(1) \o V(2) \o V(3) \o V(4) \o V(5)
            \o Readback(N) \o H(1) \o H(2) \o H(3) \o H(4) \o H(5)

Event(e, view, region, p) ==
    [e |-> e, view |-> view, region |-> region, viewport |-> p.viewport,
     target |-> p.target, buffer |-> "probeData"]

\* one statement applied to the state of the call
Execute(p, st) ==
    LET q == [p EXCEPT !.next = @ + 1]
    IN  CASE st.s = "gl.setRenderTarget" ->
                 [q EXCEPT !.target = "probeTarget"]
          [] st.s = "gl.setRenderTarget(null)" ->
                 [q EXCEPT !.target = "default"]
          [] st.s = "gl.autoClear = false" -> [q EXCEPT !.autoClear = FALSE]
          [] st.s = "gl.autoClear = true" -> [q EXCEPT !.autoClear = TRUE]
          [] st.s = "scissor.set" -> [q EXCEPT !.scissor = st.box]
          [] st.s = "viewport.set" -> [q EXCEPT !.viewport = st.box]
          [] st.s = "setUpProbe" -> [q EXCEPT !.camera = st.view]
          [] st.s = "tmpProbeBox.set" -> [q EXCEPT !.box = st.box]
          [] st.s = "gl.clearDepth" ->
                 [q EXCEPT !.log = Append(@, Event("clearDepth", "", p.scissor, p))]
          [] st.s = "gl.clearColor" ->
                 [q EXCEPT !.log = Append(@, Event("clearColor", "", p.scissor, p))]
          [] st.s = "gl.render" ->
                 [q EXCEPT !.log = Append(@, Event("render", p.camera, p.scissor, p))]
          [] st.s = "gl.readRenderTargetPixels" ->
                 [q EXCEPT !.log = Append(@, Event("readback", "", st.box, p))]
          [] st.s = "handleProbeData" ->
                 [q EXCEPT !.log = Append(@, Event("handler", st.view, p.box, p))]

ProbeIdle == probe.pc \in {"none", "done", "failed"}

\* renderLightProbe is entered: the index check (179-181)
ProbeCall ==
    /\ ProbeIdle
    /\ \E N \in ProbeSizes, indexed \in BOOLEAN :
           probe' = [pc |-> IF indexed THEN "run" ELSE "failed",
                     size |-> N, next |-> 1, target |-> "default",
                     autoClear |-> TRUE, camera |-> "", viewport |-> NoBox,
                     scissor |-> NoBox, box |-> NoBox, log |-> <<>>]
    /\ UNCHANGED <<schedAll, atlasStack, surfaceVars, stackVars, handlerCalls,
                   lastProbe, compositor, runs, sample, baking>>

ProbeStep ==
    /\ probe.pc = "run"
    /\ probe.next <= Len(renderLightProbeBody(probe.size))
    /\ probe' = Execute(probe, renderLightProbeBody(probe.size)[probe.next])
    /\ UNCHANGED <<schedAll, atlasStack, surfaceVars, stackVars, handlerCalls,
                   lastProbe, compositor, runs, sample, baking>>

ProbeReturn ==
    /\ probe.pc = "run"
    /\ probe.next > Len(renderLightProbeBody(probe.size))
    /\ probe' = [probe EXCEPT !.pc = "done"]
    /\ UNCHANGED <<schedAll, atlasStack, surfaceVars, stackVars, handlerCalls,
                   lastProbe, compositor, runs, sample, baking>>

NextProbe == ProbeCall \/ ProbeStep \/ ProbeReturn

SpecProbe == Init /\ [][NextProbe]_vars

\* the events of a successful call, in order
ExpectedEvents ==
    <<<<"clearDepth", "">>, <<"clearColor", "">>,
      <<"render", "up">>, <<"render", "+u">>, <<"render", "-u">>,
      <<"render", "+v">>, <<"render", "-v">>,
      <<"readback", "">>,
      <<"handler", "up">>, <<"handler", "+u">>, <<"handler", "-u">>,
      <<"handler", "+v">>, <<"handler", "-v">>>>

EventsOf(log) == [i \in 1..Len(log) |-> <<log[i].e, log[i].view>>]

WholeTarget(N) == Box(0, 0, 4 * N, 2 * N)

\* C11: a successful renderLightProbe clears the whole shared target
\* once (its depth and its colour), renders the 5 views up, +u, -u, +v,
\* -v, reads the whole target back once and then invokes the handler 5
\* times in the same view order on the one probeData buffer; no handler
\* call comes before the readback; on return autoClear is true and the
\* render target is the default one.
C11_ProbeOperationOrder ==
    probe.pc \in {"run", "done"} =>
        /\ Len(probe.log) <= Len(ExpectedEvents)
        /\ EventsOf(probe.log) = SubSeq(ExpectedEvents, 1, Len(probe.log))
        /\ \A i \in 1..Len(probe.log) :
               /\ probe.log[i].buffer = "probeData"
               /\ probe.log[i].e \in {"clearDepth", "clearColor", "render"}
                      => probe.log[i].target = "probeTarget"
               /\ probe.log[i].e \in {"clearDepth", "clearColor", "readback"}
                      => probe.log[i].region = WholeTarget(probe.size)
        /\ probe.pc = "done" =>
               /\ EventsOf(probe.log) = ExpectedEvents
               /\ probe.autoClear = TRUE
               /\ probe.target = "default"

\* a call that has returned after all its renders and handler calls
C11_Witness ==
    /\ probe.pc = "done"
    /\ Len(probe.log) = 13
    /\ probe.log[13].e = "handler"
    /\ probe.log[13].view = "-v"


\* the readback buffer (164) and the row stride handed to the handler (295)
probeDataLength(N) == N * 4 * N * 2 * 4

rowPixelStride(N) == N * 4

BoxesDisjoint(a, b) ==
    \/ a.x + a.w <= b.x
    \/ b.x + b.w <= a.x
    \/ a.y + a.h <= b.y
    \/ b.y + b.h <= a.y

BoxInside(a, outer) ==
    /\ a.w > 0
    /\ a.h > 0
    /\ a.x >= outer.x
    /\ a.y >= outer.y
    /\ a.x + a.w <= outer.x + outer.w
    /\ a.y + a.h <= outer.y + outer.h

\* the last float of the last pixel of a box is in the buffer
BoxInBuffer(a, N) ==
    ((a.y + a.h - 1) * rowPixelStride(N) + (a.x + a.w - 1)) * 4 + 3
        < probeDataLength(N)

EventsOfKind(log, kind) == {i \in 1..Len(log) : log[i].e = kind}

\* C19: the regions of the 5 views (an N x N square for up, N x N/2
\* strips for the sides, each the upper half of its viewport) are pairwise
\* disjoint and inside the 4N x 2N target and the readback buffer, and the
\* box the handler gets for a view is the scissor region of that view's
\* render.
C19_ProbeRegions ==
    probe.pc \in {"run", "done"} =>
        LET N == probe.size
            renders == EventsOfKind(probe.log, "render")
            handlers == EventsOfKind(probe.log, "handler")
        IN  /\ \A i \in renders :
                   LET r == probe.log[i]
                   IN  /\ BoxInside(r.region, WholeTarget(N))
                       /\ BoxInBuffer(r.region, N)
                       /\ BoxInside(r.region, r.viewport)
                       /\ r.region.w = N
                       /\ r.view = "up" => r.region.h = N
                       /\ r.view /= "up" =>
                              /\ r.region.h = halfSize(N)
                              /\ 2 * r.region.h = r.viewport.h
                              /\ r.region.y + r.region.h
                                     = r.viewport.y + r.viewport.h
            /\ \A i, j \in renders :
                   i /= j => BoxesDisjoint(probe.log[i].region,
                                           probe.log[j].region)
            /\ \A i \in handlers : \E j \in renders :
                   /\ probe.log[j].view = probe.log[i].view
                   /\ probe.log[j].region = probe.log[i].region

\* all five boxes handed over, for a target of more than one size
C19_Witness ==
    /\ probe.pc = "done"
    /\ probe.size >= 4
    /\ Cardinality(EventsOfKind(probe.log, "handler")) = 5
    /\ Cardinality({probe.log[i].region :
                       i \in EventsOfKind(probe.log, "handler")}) = 5


\* ------------------------------------------------------------------
\* IrradianceCompositor.tsx: the layers and the useFrame callback
\* ------------------------------------------------------------------
MaxComposites == 3

MaxMultiplier == 2

\* colours in tenths, one number per channel
Colour(r, g, b) == <<r, g, b>>

Black == Colour(0, 0, 0)

Factors == {"sun", "lamp"}

\* the textures handed in as baseOutput and factorOutputs
BaseTexture == Colour(5, 5, 5)

FactorTexture(f) == IF f = "sun" THEN Colour(10, 0, 0) ELSE Colour(0, 10, 5)

\* a factorValues entry: a number, or undefined
Undefined == 0 - 1

Multipliers == 0..MaxMultiplier \cup {Undefined}

\* "if (... && multiplier)": undefined and 0 are falsy
Truthy(multiplier) == multiplier /= Undefined /\ multiplier /= 0

Scale(c, m) == [i \in 1..3 |-> c[i] * m]

Plus(a, b) == [i \in 1..3 |-> a[i] + b[i]]

RECURSIVE Blend(_, _, _)
\* the meshes of orthoScene drawn one after another with additive
\* blending: gl_FragColor = texture * multiplier (36, 40)
Blend(layers, uniforms, acc) ==
    IF layers = {} THEN acc
    ELSE LET f == CHOOSE x \in layers : TRUE
         IN  Blend(layers \ {f}, uniforms,
                   Plus(acc, Scale(FactorTexture(f), uniforms[f])))

\* the loop over factorOutputs (117-124)
UpdateUniforms(uniforms, layers, factorValues) ==
    [f \in Factors |->
        IF f \in layers /\ Truthy(factorValues[f])
        THEN factorValues[f] ELSE uniforms[f]]

\* the component renders: a mesh per non-null texture, each material
\* created with multiplier 0 (17, 135-158)
Mount ==
    /\ ~compositor.mounted
    /\ \E base \in BOOLEAN, layers \in SUBSET Factors :
           compositor' = [mounted |-> TRUE, base |-> base, layers |-> layers,
                          baseUniform |-> 0,
                          uniforms |-> [f \in Factors |-> 0],
                          calls |-> 0, clears |-> 0, output |-> Black,
                          factorValues |-> [f \in Factors |-> Undefined]]
    /\ UNCHANGED <<schedAll, atlasStack, surfaceVars, stackVars, handlerCalls,
                   lastProbe, probe, runs, sample, baking>>

\* the useFrame callback (104-130)
Composite ==
    /\ compositor.mounted
    /\ compositor.calls < MaxComposites
    /\ \E factorValues \in [Factors -> Multipliers] :
           LET baseUniform == IF compositor.base THEN 1
                              ELSE compositor.baseUniform
               uniforms == UpdateUniforms(compositor.uniforms,
                                          compositor.layers, factorValues)
               cleared == Black
               withBase == IF compositor.base
                           THEN Plus(cleared, Scale(BaseTexture, baseUniform))
                           ELSE cleared
           IN  compositor' =
                   [compositor EXCEPT
                       !.baseUniform = baseUniform,
                       !.uniforms = uniforms,
                       !.calls = @ + 1,
                       !.clears = @ + 1,
                       !.factorValues = factorValues,
                       !.output = Blend(compositor.layers, uniforms, withBase)]
    /\ UNCHANGED <<schedAll, atlasStack, surfaceVars, stackVars, handlerCalls,
                   lastProbe, probe, runs, sample, baking>>

NextCompositor == Mount \/ Composite

SpecCompositor == Init /\ [][NextCompositor]_vars

\* what a multiplier contributes: undefined contributes nothing
Supplied(m) == IF m = Undefined THEN 0 ELSE m

RECURSIVE SumOfLayers(_, _, _)
SumOfLayers(layers, factorValues, acc) ==
    IF layers = {} THEN acc
    ELSE LET f == CHOOSE x \in layers : TRUE
         IN  SumOfLayers(layers \ {f}, factorValues,
                 Plus(acc, Scale(FactorTexture(f), Supplied(factorValues[f]))))

\* C12: after every composite call the target holds base * 1 (when there
\* is a base layer) plus, for each factor layer with a texture, the
\* texture times the multiplier supplied in that call, whatever was
\* supplied in the calls before; the target is cleared once per call.
C12_CompositeIsWeightedSum ==
    (compositor.mounted /\ compositor.calls > 0) =>
        /\ compositor.clears = compositor.calls
        /\ compositor.output =
               SumOfLayers(compositor.layers, compositor.factorValues,
                           IF compositor.base THEN BaseTexture ELSE Black)

\* the part of C12 that holds: the sum with the multipliers of the
\* uniforms, which are those of this call where it supplied a non-zero
\* number
CompositeUsesUniforms ==
    (compositor.mounted /\ compositor.calls > 0) =>
        /\ compositor.clears = compositor.calls
        /\ compositor.output =
               Blend(compositor.layers, compositor.uniforms,
                     IF compositor.base THEN BaseTexture ELSE Black)
        /\ \A f \in compositor.layers :
               Truthy(compositor.factorValues[f]) =>
                   compositor.uniforms[f] = compositor.factorValues[f]

\* base (0.5, 0.5, 0.5) plus factor (1, 0, 0) times 2 is (2.5, 0.5, 0.5)
CompositeScenario ==
    (/\ compositor.mounted
     /\ compositor.calls > 0
     /\ compositor.base
     /\ compositor.layers = {"sun"}
     /\ compositor.factorValues["sun"] = 2)
        => compositor.output = Colour(25, 5, 5)


\* ------------------------------------------------------------------
\* Two bakes of the same atlas map with their own random draws
\* (Atlas.tsx 238-279, 297-321)
\* ------------------------------------------------------------------
MaxRunSteps == 18

\* Math.random() * Math.PI at 0, pi/4, pi/2, 3pi/4: cosine and sine in
\* thousandths
UpAngles == 0..3

upAngleCos(a) == CASE a = 0 -> 1000 [] a = 1 -> 707 [] a = 2 -> 0 [] OTHER -> -707

upAngleSin(a) == CASE a = 0 -> 0 [] a = 1 -> 707 [] a = 2 -> 1000 [] OTHER -> 707

\* tmpU, tmpV after "sub(tmpOrigin)" for the face of an item (300-305)
FaceEdges(item) ==
    LET geo == Geometry(item.mesh)
        f   == fetchFaceUV(geo.position,
                           fetchFaceIndexes(geo.index, item.faceIndex))
    IN  [origin |-> f.tmpOrigin,
         uEdge  |-> VSub(f.tmpU, f.tmpOrigin),
         vEdge  |-> VSub(f.tmpV, f.tmpOrigin)]

\* probeCam.up (318-320)
ProbeUp(item, a) ==
    LET e == FaceEdges(item)
    IN  [i \in 1..3 |-> e.uEdge[i] * upAngleCos(a) - e.vEdge[i] * upAngleSin(a)]

\* one iterate() where the draw decides whether a texel is skipped
StepRunDrawSkips(run, a) ==
    LET s  == Schedule(run.info, run.index)
        s2 == IF a = 0 THEN Schedule(s.info, s.index) ELSE s
    IN  [info      |-> s2.info,
         index     |-> s2.index,
         visits    |-> Append(run.visits,
                              <<run.index, s2.faceTexelX, s2.faceTexelY>>),
         rotations |-> IF s2.rotate
                       THEN Append(run.rotations, Len(run.visits) + 1)
                       ELSE run.rotations,
         up        |-> ProbeUp(run.info[run.index + 1], a)]

\* one iterate() of a run: the scheduler part and the camera's up vector
StepRun(run, a) ==
    LET s == Schedule(run.info, run.index)
    IN  [info      |-> s.info,
         index     |-> s.index,
         visits    |-> Append(run.visits,
                              <<run.index, s.faceTexelX, s.faceTexelY>>),
         rotations |-> IF s.rotate
                       THEN Append(run.rotations, Len(run.visits) + 1)
                       ELSE run.rotations,
         up        |-> ProbeUp(run.info[run.index + 1], a)]

RunMeshes == BakedMeshes \cup {"flat"}

RunsRegister ==
    /\ ~runs.started
    /\ \E g \in RunMeshes : UseMeshWithAtlas(g, MaxFaces)

RunsStart ==
    /\ ~runs.started
    /\ AtlasInitialized(atlasInfo)
    /\ LET fresh == [info |-> atlasInfo, index |-> 0, visits |-> <<>>,
                     rotations |-> <<>>, up |-> <<0, 0, 0>>]
       IN  runs' = [started |-> TRUE, map |-> atlasInfo, one |-> fresh,
                    two |-> fresh, drawsDiffer |-> FALSE]
    /\ UNCHANGED <<schedAll, atlasStack, surfaceVars, stackVars, handlerCalls,
                   lastProbe, probe, compositor, sample, baking>>

RunsStep ==
    /\ runs.started
    /\ Len(runs.one.visits) < MaxRunSteps
    /\ \E a, b \in UpAngles :
           LET one == StepRun(runs.one, a)
               two == StepRun(runs.two, b)
           IN  runs' = [runs EXCEPT
                           !.one = one,
                           !.two = two,
                           !.drawsDiffer = @ \/ one.up /= two.up]
    /\ UNCHANGED <<schedAll, atlasStack, surfaceVars, stackVars, handlerCalls,
                   lastProbe, probe, compositor, sample, baking>>

NextRuns == RunsRegister \/ RunsStart \/ RunsStep

SpecRuns == Init /\ [][NextRuns]_vars

\* texel p (0-based) of a pass over info, counting from face i
RECURSIVE TexelOfPass(_, _, _)
TexelOfPass(info, p, i) ==
    IF p < FaceTexels(info[i])
    THEN <<i - 1, p % faceTexelCols(info[i]), p \div faceTexelCols(info[i])>>
    ELSE TexelOfPass(info, p - FaceTexels(info[i]), i + 1)

NoEmptyFace(info) == \A i \in 1..Len(info) : FaceTexels(info[i]) > 0

\* C13: two bakes of the same atlas map that differ only in the up-angle
\* draws visit the same (face, x, y) in the same order and rotate at the
\* same steps; faces come in registration order and the texels of a face
\* in row-major order of the fill count.
C13_VisitOrderIndependentOfDraws ==
    runs.started =>
        /\ runs.one.visits = runs.two.visits
        /\ runs.one.rotations = runs.two.rotations
        /\ runs.one.index = runs.two.index
        /\ runs.one.info = runs.two.info
        /\ NoEmptyFace(runs.map) =>
               LET total == TotalTexels(runs.map, Len(runs.map))
               IN  /\ \A k \in 1..Len(runs.one.visits) :
                          runs.one.visits[k]
                              = TexelOfPass(runs.map, (k - 1) % total, 1)
                   /\ \A k \in 1..Len(runs.one.visits) :
                          (k % total = 0)
                              = (\E r \in 1..Len(runs.one.rotations) :
                                     runs.one.rotations[r] = k)

\* two faces, more than a pass, and draws that differed
C13_Witness ==
    /\ runs.started
    /\ runs.drawsDiffer
    /\ runs.one.up /= runs.two.up
    /\ Len(runs.map) >= 2
    /\ NoEmptyFace(runs.map)
    /\ Len(runs.one.rotations) >= 1
    /\ Len(runs.one.visits) > runs.one.rotations[1]


\* ------------------------------------------------------------------
\* The surface point of a face at (pU, pV)
\* (Atlas.tsx 297-312, IrradianceLightProbe.tsx 183-201)
\* ------------------------------------------------------------------
\* pU and pV run over 0, 1/ParamSteps, ..., 1; points are kept as
\* ParamSteps times their coordinates
ParamSteps == 2

Params == 0..ParamSteps

VScale(v, k) == <<v[1] * k, v[2] * k, v[3] * k>>

VAdd(a, b) == <<a[1] + b[1], a[2] + b[2], a[3] + b[3]>>

\* Vector3.addScaledVector(v, s) with s = num / ParamSteps, on a vector
\* kept as ParamSteps times its value
addScaledVector(acc, v, num) == VAdd(acc, VScale(v, num))

\* the edges left as corner positions (no sub(tmpOrigin))
atlasSurfacePointNoSub(geo, faceIndex, pU, pV) ==
    LET f == fetchFaceUV(geo.position, fetchFaceIndexes(geo.index, faceIndex))
    IN  addScaledVector(
            addScaledVector(VScale(f.tmpOrigin, ParamSteps), f.tmpU, pU),
            f.tmpV, pV)

\* iterate (Atlas.tsx 297-312)
atlasSurfacePoint(geo, faceIndex, pU, pV) ==
    LET f    == fetchFaceUV(geo.position, fetchFaceIndexes(geo.index, faceIndex))
        tmpU == VSub(f.tmpU, f.tmpOrigin)
        tmpV == VSub(f.tmpV, f.tmpOrigin)
    IN  addScaledVector(
            addScaledVector(VScale(f.tmpOrigin, ParamSteps), tmpU, pU),
            tmpV, pV)

\* renderLightProbe (IrradianceLightProbe.tsx 183-201): the three
\* vertices at faceVertexBase = faceIndex * 3
probeSurfacePoint(geo, faceIndex, pU, pV) ==
    LET faceVertexBase == faceIndex * 3
        tmpOrigin == geo.position[geo.index[faceVertexBase + 1] + 1]
        tmpU == VSub(geo.position[geo.index[faceVertexBase + 2] + 1], tmpOrigin)
        tmpV == VSub(geo.position[geo.index[faceVertexBase + 3] + 1], tmpOrigin)
    IN  addScaledVector(
            addScaledVector(VScale(tmpOrigin, ParamSteps), tmpU, pU),
            tmpV, pV)

SampledMeshes == {"quad4x4", "strip", "pair", "row16", "flat"}

\* the scheduler's computation for quad faceIndex of a geometry
AtlasSample ==
    /\ sample = NoSample
    /\ \E g \in SampledMeshes, pU \in Params, pV \in Params :
       \E faceIndex \in 0..(Len(Geometry(g).index) \div 6 - 1) :
           sample' = [by |-> "atlas", mesh |-> g, faceIndex |-> faceIndex,
                      pU |-> pU, pV |-> pV,
                      point |-> atlasSurfacePoint(Geometry(g), faceIndex, pU, pV)]
    /\ UNCHANGED <<schedAll, atlasStack, surfaceVars, stackVars, handlerCalls,
                   lastProbe, probe, compositor, runs, baking>>

\* the probe's computation for triangle faceIndex of a geometry
ProbeSample ==
    /\ sample = NoSample
    /\ \E g \in SampledMeshes, pU \in Params, pV \in Params :
       \E faceIndex \in 0..(Len(Geometry(g).index) \div 3 - 1) :
           sample' = [by |-> "probe", mesh |-> g, faceIndex |-> faceIndex,
                      pU |-> pU, pV |-> pV,
                      point |-> probeSurfacePoint(Geometry(g), faceIndex, pU, pV)]
    /\ UNCHANGED <<schedAll, atlasStack, surfaceVars, stackVars, handlerCalls,
                   lastProbe, probe, compositor, runs, baking>>

NextSample == AtlasSample \/ ProbeSample

SpecSample == Init /\ [][NextSample]_vars

\* the corners of quad q of a row of quads, from the layout of the
\* vertices: a top-left, b bottom-left, c bottom-right, d top-right
QuadCorner(g, q, corner) ==
    LET n == Len(Geometry(g).index) \div 6
        v == CASE corner = "a" -> q
               [] corner = "b" -> q + n + 1
               [] corner = "c" -> q + n + 2
               [] OTHER -> q + 1
    IN  Geometry(g).position[v + 1]

\* origin, U corner and V corner of what was sampled
CornersOf(sm) ==
    IF sm.by = "atlas"
    THEN [origin |-> QuadCorner(sm.mesh, sm.faceIndex, "b"),
          u |-> QuadCorner(sm.mesh, sm.faceIndex, "c"),
          v |-> QuadCorner(sm.mesh, sm.faceIndex, "a"),
          far |-> QuadCorner(sm.mesh, sm.faceIndex, "d")]
    ELSE LET q == sm.faceIndex \div 2
         IN  IF sm.faceIndex % 2 = 0
             THEN [origin |-> QuadCorner(sm.mesh, q, "a"),
                   u |-> QuadCorner(sm.mesh, q, "b"),
                   v |-> QuadCorner(sm.mesh, q, "d"),
                   far |-> QuadCorner(sm.mesh, q, "c")]
             ELSE [origin |-> QuadCorner(sm.mesh, q, "b"),
                   u |-> QuadCorner(sm.mesh, q, "c"),
                   v |-> QuadCorner(sm.mesh, q, "d"),
                   far |-> VAdd(QuadCorner(sm.mesh, q, "c"),
                                VSub(QuadCorner(sm.mesh, q, "d"),
                                     QuadCorner(sm.mesh, q, "b")))]

\* C14: the surface point at (pU, pV) is origin + pU * uEdge + pV * vEdge
\* with uEdge, vEdge the two other corners minus the origin corner: the
\* origin corner at (0, 0), the U corner at (1, 0), the V corner at
\* (0, 1) and origin + uEdge + vEdge at (1, 1).
C14_SurfacePointIsAffine ==
    sample /= NoSample =>
        LET c == CornersOf(sample)
            uEdge == VSub(c.u, c.origin)
            vEdge == VSub(c.v, c.origin)
        IN  /\ sample.point =
                   VAdd(VScale(c.origin, ParamSteps),
                        VAdd(VScale(uEdge, sample.pU), VScale(vEdge, sample.pV)))
            /\ (sample.pU = 0 /\ sample.pV = 0)
                   => sample.point = VScale(c.origin, ParamSteps)
            /\ (sample.pU = ParamSteps /\ sample.pV = 0)
                   => sample.point = VScale(c.u, ParamSteps)
            /\ (sample.pU = 0 /\ sample.pV = ParamSteps)
                   => sample.point = VScale(c.v, ParamSteps)
            /\ (sample.pU = ParamSteps /\ sample.pV = ParamSteps)
                   => sample.point = VScale(c.far, ParamSteps)

\* the far corner of a face that is not the first of its mesh, by the
\* scheduler's computation
C14_Witness ==
    /\ sample /= NoSample
    /\ sample.by = "atlas"
    /\ sample.faceIndex > 0
    /\ sample.pU = ParamSteps
    /\ sample.pV = ParamSteps
    /\ sample.point /= VScale(CornersOf(sample).origin, ParamSteps)


\* ------------------------------------------------------------------
\* The scheduler run without end: only what iterate() keeps between
\* calls (atlasInfo's fill counts and the face index, Atlas.tsx 238-279)
\* ------------------------------------------------------------------
LiveRegister ==
    /\ ~baking.started
    /\ \E g \in RunMeshes : UseMeshWithAtlas(g, MaxFaces)

\* the host starts to invoke ticks
LiveStart ==
    /\ ~baking.started
    /\ AtlasInitialized(atlasInfo)
    /\ baking' = [started |-> TRUE, map |-> atlasInfo, info |-> atlasInfo,
                index |-> 0, visit |-> <<-1, -1, -1>>, rotated |-> FALSE]
    /\ UNCHANGED <<schedAll, atlasStack, surfaceVars, stackVars, handlerCalls,
                   lastProbe, probe, compositor, runs, sample>>

\* one iterate() of a tick
LiveIterate ==
    /\ baking.started
    /\ LET s == Schedule(baking.info, baking.index)
       IN  baking' = [baking EXCEPT
                       !.info = s.info,
                       !.index = s.index,
                       !.visit = <<baking.index, s.faceTexelX, s.faceTexelY>>,
                       !.rotated = s.rotate]
    /\ UNCHANGED <<schedAll, atlasStack, surfaceVars, stackVars, handlerCalls,
                   lastProbe, probe, compositor, runs, sample>>

NextLive == LiveRegister \/ LiveStart \/ LiveIterate

\* the host keeps invoking ticks
SpecLive == Init /\ [][NextLive]_vars /\ WF_vars(LiveIterate)

\* texel (x, y) of face f of a map
IsTexel(map, f, x, y) ==
    /\ f < Len(map)
    /\ x < faceTexelCols(map[f + 1])
    /\ y < faceTexelRows(map[f + 1])

\* C15: while ticks keep coming on a non-empty atlas map, every texel of
\* every registered face is visited again and again and the stack is
\* rotated again and again, also when a face has a zero-length edge.
C15_NoStuckState ==
    /\ \A f \in 0..(MaxFaces - 1), x \in 0..3, y \in 0..3 :
           (baking.started /\ IsTexel(baking.map, f, x, y))
               ~> (baking.visit = <<f, x, y>>)
    /\ baking.started ~> baking.rotated

\* the part of C15 that holds: maps whose faces all have texels
LiveWithoutEmptyFace ==
    /\ \A f \in 0..(MaxFaces - 1), x \in 0..3, y \in 0..3 :
           (baking.started /\ NoEmptyFace(baking.map)
                /\ IsTexel(baking.map, f, x, y))
               ~> (baking.visit = <<f, x, y>>)
    /\ (baking.started /\ NoEmptyFace(baking.map)) ~> baking.rotated


\* ------------------------------------------------------------------
\* Registrations between ticks, any geometry
\* ------------------------------------------------------------------
NextInterleaved ==
    \/ UseFrameEmpty
    \/ UseFrameBegin
    \/ Iterate
    \/ UseFrameEnd
    \/ Render
    \/ \E g \in RunMeshes : UseMeshWithAtlas(g, MaxFaces)

SpecInterleaved == Init /\ [][NextInterleaved]_vars

\* C16: whatever the order of registrations and ticks, every item's
\* pixelFillCount is in [0, faceTexelRows * faceTexelCols), the current
\* face index is an index of a non-empty atlasInfo, and only the item at
\* the current face index can have a non-zero pixelFillCount.
C16_FillCountInvariants ==
    /\ \A i \in 1..Len(atlasInfo) :
           /\ atlasInfo[i].pixelFillCount >= 0
           /\ atlasInfo[i].pixelFillCount < FaceTexels(atlasInfo[i])
    /\ Len(atlasInfo) > 0 =>
           atlasFaceFillIndexRef \in 0..(Len(atlasInfo) - 1)
    /\ \A i \in 1..Len(atlasInfo) :
           atlasInfo[i].pixelFillCount /= 0 => atlasFaceFillIndexRef = i - 1

\* the part of C16 that holds for every geometry
FaceIndexValid ==
    /\ Len(atlasInfo) > 0 =>
           atlasFaceFillIndexRef \in 0..(Len(atlasInfo) - 1)
    /\ \A i \in 1..Len(atlasInfo) :
           atlasInfo[i].pixelFillCount /= 0 => atlasFaceFillIndexRef = i - 1
    /\ \A i \in 1..Len(atlasInfo) :
           FaceTexels(atlasInfo[i]) > 0 =>
               /\ atlasInfo[i].pixelFillCount >= 0
               /\ atlasInfo[i].pixelFillCount < FaceTexels(atlasInfo[i])


\* ------------------------------------------------------------------
\* The sample parameters of a visited texel (Atlas.tsx 281-289)
\* ------------------------------------------------------------------
\* pU = (atlasTexelX + 0.5 - atlasTexelLeft) / texelSizeU as a fraction:
\* both sides times 2 * UVOne
pU(item, faceTexelX) ==
    [num |-> 2 * UVOne * (TexelLeft(item) + faceTexelX) + UVOne
                 - 2 * item.left * atlasWidth,
     den |-> 2 * item.sizeU * atlasWidth]

\* pV = (atlasTexelY + 0.5 - atlasTexelTop) / texelSizeV
pV(item, faceTexelY) ==
    [num |-> 2 * UVOne * (TexelTop(item) + faceTexelY) + UVOne
                 - 2 * item.top * atlasWidth,
     den |-> 2 * item.sizeV * atlasHeight]

\* quads of 0.7, 0.1 x 0.3, 0.3 and 0.1, and 0.25 a side
TexelMeshes == {"quad4x4", "strip", "pair", "quarter"}

NextTexels ==
    \/ UseFrameBegin
    \/ Iterate
    \/ UseFrameEnd
    \/ Render
    \/ \E g \in TexelMeshes : UseMeshWithAtlas(g, MaxFaces)

SpecTexels == Init /\ [][NextTexels]_vars

StrictlyInside(q) == q.den > 0 /\ 0 < q.num /\ q.num < q.den

\* C17: for every texel the scheduler visits, pU and pV are strictly
\* between 0 and 1.
C17_SampleInsideFace ==
    lastVisit /= NoVisit =>
        /\ StrictlyInside(pU(atlasInfo[lastVisit.face + 1], lastVisit.x))
        /\ StrictlyInside(pV(atlasInfo[lastVisit.face + 1], lastVisit.y))

\* the part of C17 that holds: pU and pV are positive, and below 1 except
\* in the last column or row of the face
SampleInsideButLast ==
    lastVisit /= NoVisit =>
        LET item == atlasInfo[lastVisit.face + 1]
            u == pU(item, lastVisit.x)
            v == pV(item, lastVisit.y)
        IN  /\ u.den > 0 /\ u.num > 0
            /\ v.den > 0 /\ v.num > 0
            /\ lastVisit.x < faceTexelCols(item) - 1 => u.num < u.den
            /\ lastVisit.y < faceTexelRows(item) - 1 => v.num < v.den


\* ------------------------------------------------------------------
\* The atlas texels an item's visits write (Atlas.tsx 251-285, 362-379)
\* ------------------------------------------------------------------
Footprint(item) ==
    UNION {SeqToSet(WriteTargets(atlasTexelBase(item, x, y), x, y)) :
              x \in 0..(faceTexelCols(item) - 1),
              y \in 0..(faceTexelRows(item) - 1)}

\* the columns and rows of the footprint stay in the atlas
NoWrapAround(item) ==
    FaceTexels(item) > 0 =>
        /\ TexelLeft(item) - 1 >= 0
        /\ TexelLeft(item) + faceTexelCols(item) <= atlasWidth
        /\ TexelTop(item) - 1 >= 0
        /\ TexelTop(item) + faceTexelRows(item) <= atlasHeight

\* C18: the footprints of the items (interior texels plus the left and
\* top bleed border and corner) lie in [0, W * H) without row
\* wrap-around and are pairwise disjoint.
C18_FootprintsDisjointInBuffer ==
    /\ \A i \in 1..Len(atlasInfo) :
           /\ Footprint(atlasInfo[i]) \subseteq 0..(atlasWidth * atlasHeight - 1)
           /\ NoWrapAround(atlasInfo[i])
    /\ \A i, j \in 1..Len(atlasInfo) :
           i < j => Footprint(atlasInfo[i]) \cap Footprint(atlasInfo[j]) = {}

\* the part of C18 that holds: disjoint footprints, and inside the
\* buffer for the items up to the capacity
FootprintsDisjoint ==
    /\ \A i \in 1..Len(atlasInfo) :
           i <= AtlasCapacity =>
               /\ Footprint(atlasInfo[i])
                      \subseteq 0..(atlasWidth * atlasHeight - 1)
               /\ NoWrapAround(atlasInfo[i])
    /\ \A i, j \in 1..Len(atlasInfo) :
           i < j => Footprint(atlasInfo[i]) \cap Footprint(atlasInfo[j]) = {}

=============================================================================
